---- MODULE Spec2Model ----
(***************************************************************************)
(* Schoening's probabilistic local search for k-SAT                        *)
(* (main_kSat_probAlg.py): constructCNF, checkCfg, schoening_kSat.         *)
(*                                                                         *)
(* Sequences are 1-indexed here, so the code's cfg[abs(li)-1] is           *)
(* cfg[Abs(li)] in the model.                                              *)
(***************************************************************************)
EXTENDS Integers, Sequences, FiniteSets, TLC

\* ---------------------------------------------------------------- bounds
NVars      == 2   \* number of variables N of the instances explored
MaxK       == 2   \* largest number of literals per clause
MaxClauses == 2   \* largest number of clauses per CNF
MaxTries   == 3   \* largest initial budget nTries

VARIABLES
    \* schoening_kSat
    cnf,      \* the CNF: a sequence of clauses, each a sequence of literals
    cfg,      \* the assignment, mutated in place
    nTries,   \* remaining budget
    pc,       \* "idle" | "loop" | "done" | "error"
    \* history of the run (not program state)
    cfg0,     \* the assignment the run started with
    nTries0,  \* the budget the run started with
    nFlips,   \* number of executions of line 100
    nIters,   \* number of times the loop body was entered
    ciSel,    \* clause chosen in the last flipping iteration
    vSel,     \* variable (1-indexed) flipped in the last flipping iteration
    cfgPre,   \* assignment at the start of the last flipping iteration
    \* checkCfg called on its own
    evPc,     \* "idle" | "call" | "returned"
    evArg,    \* the cnf argument of the call
    evSat,    \* the value returned
    \* constructCNF
    gPc,      \* "idle" | "gen" | "returned" | "error"
    gC, gL, gV,   \* arguments nC, nL, nV
    gOut      \* clauses built so far

engineVars == <<cnf, cfg, nTries, pc, cfg0, nTries0, nFlips, nIters,
                ciSel, vSel, cfgPre>>
evalVars   == <<evPc, evArg, evSat>>
genVars    == <<gPc, gC, gL, gV, gOut>>
vars       == <<engineVars, evalVars, genVars>>

\* ------------------------------------------------------------ input sets
Lits        == {l \in (0 - NVars)..NVars : l # 0}
Clauses     == UNION {[1..k -> Lits] : k \in 0..MaxK}
CNFs        == UNION {[1..c -> Clauses] : c \in 0..MaxClauses}
Assignments == [1..NVars -> {0, 1}]

\* --------------------------------------------------------------- helpers
Abs(x) == IF x < 0 THEN 0 - x ELSE x

\* Python compares a bool with an int numerically: True == 1, False == 0
BoolAsInt(b) == IF b THEN 1 ELSE 0

\* ---------------------------------------------------------------- checkCfg
\* line 45 with the sign ignored
LitTrue_noSign(li, a) == a[Abs(li)] = 1

\* line 45: (li>0) == cfg[abs(li)-1]
LitTrue(li, a) == BoolAsInt(li > 0) = a[Abs(li)]

\* lines 43-46: the number of satisfied literals of clause ci
RECURSIVE nTrue(_, _)
nTrue(ci, a) ==
    IF ci = <<>> THEN 0
    ELSE (IF LitTrue(Head(ci), a) THEN 1 ELSE 0) + nTrue(Tail(ci), a)

\* checkCfg without the break, sat re-set by every clause: the last clause wins
RECURSIVE checkCfg_lastWins(_, _)
checkCfg_lastWins(f, a) ==
    IF f = <<>> THEN TRUE
    ELSE IF Tail(f) = <<>> THEN nTrue(Head(f), a) # 0
    ELSE checkCfg_lastWins(Tail(f), a)

\* checkCfg with sat initialised to False when there is nothing to confirm it
RECURSIVE checkCfg_emptyFalse(_, _)
checkCfg_emptyFalse(f, a) ==
    IF f = <<>> THEN FALSE
    ELSE IF nTrue(Head(f), a) = 0 THEN FALSE
    ELSE IF Tail(f) = <<>> THEN TRUE
    ELSE checkCfg_emptyFalse(Tail(f), a)

\* checkCfg returning from inside the loop: only the first clause is looked at
checkCfg_firstOnly(f, a) ==
    IF f = <<>> THEN TRUE ELSE nTrue(Head(f), a) # 0

\* lines 39-51: sat = True; the first clause with nTrue == 0 sets False, breaks
RECURSIVE checkCfg(_, _)
checkCfg(f, a) ==
    IF f = <<>> THEN TRUE
    ELSE IF nTrue(Head(f), a) = 0 THEN FALSE
    ELSE checkCfg(Tail(f), a)

\* line 77
notSat(ci, a) == checkCfg(<<ci>>, a) = FALSE

\* ---------------------------------------------------------- schoening_kSat
\* line 94: the clauses of f, in order, that a does not satisfy
RECURSIVE FilterNotSat(_, _)
FilterNotSat(f, a) ==
    IF f = <<>> THEN <<>>
    ELSE (IF notSat(Head(f), a) THEN <<Head(f)>> ELSE <<>>)
         \o FilterNotSat(Tail(f), a)

\* the list of line 94 kept from the assignment the run started with
NotSatList_stale(f, a) == FilterNotSat(f, cfg0)

\* the list of line 94 built from cnf[1:]
NotSatList_skipFirst(f, a) ==
    IF f = <<>> THEN <<>> ELSE FilterNotSat(Tail(f), a)

\* line 94: [ci for ci in cnf if notSat(ci)]
NotSatList(f, a) == FilterNotSat(f, a)

\* line 79 stopping one try early
LoopCond_early(n) == n > 1

\* line 79 as "while nTries >= 0"
LoopCond_nonneg(n) == n >= 0

\* line 79: while nTries  (an int is true iff it is nonzero)
LoopCond(n) == n # 0

\* line 100 setting the value instead of complementing it
FlipAt_set(a, v) == [a EXCEPT ![v] = 1]

\* line 100 negating the value: cfg[vId] = -cfg[vId]
FlipAt_negate(a, v) == [a EXCEPT ![v] = 0 - a[v]]

\* line 100 clearing the value: cfg[vId] = 0
FlipAt_clear(a, v) == [a EXCEPT ![v] = 0]

\* line 100: cfg[vId] = 1 - cfg[vId]
FlipAt(a, v) == [a EXCEPT ![v] = 1 - a[v]]

\* line 102 forgotten
NextTries_keep(n) == n

\* line 102 subtracting two
NextTries_twice(n) == n - 2

\* line 102: nTries -= 1
NextTries(n) == n - 1

\* the call schoening_kSat(cnf, cfg, nTries)
InitEngine ==
    /\ cnf \in CNFs
    /\ cfg \in Assignments
    /\ nTries \in 0..MaxTries
    /\ pc = "loop"
    /\ cfg0 = cfg
    /\ nTries0 = nTries
    /\ nFlips = 0
    /\ nIters = 0
    /\ ciSel = <<>>
    /\ vSel = 0
    /\ cfgPre = cfg

IdleEngine ==
    /\ pc = "idle"
    /\ nTries = 0
    /\ cfg0 = cfg
    /\ nTries0 = 0
    /\ nFlips = 0
    /\ nIters = 0
    /\ ciSel = <<>>
    /\ vSel = 0
    /\ cfgPre = cfg

IdleEval == evPc = "idle" /\ evArg = <<>> /\ evSat = TRUE

IdleGen == gPc = "idle" /\ gC = 0 /\ gL = 0 /\ gV = 0 /\ gOut = <<>>

\* line 79 false, line 104: the budget is used up
Exhausted ==
    /\ pc = "loop"
    /\ ~LoopCond(nTries)
    /\ pc' = "done"
    /\ UNCHANGED <<cnf, cfg, nTries, cfg0, nTries0, nFlips, nIters,
                   ciSel, vSel, cfgPre>>
    /\ UNCHANGED <<evalVars, genVars>>

\* lines 79, 83-84, 104: the assignment satisfies the cnf
Break ==
    /\ pc = "loop"
    /\ LoopCond(nTries)
    /\ checkCfg(cnf, cfg)
    /\ pc' = "done"
    /\ nIters' = nIters + 1
    /\ UNCHANGED <<cnf, cfg, nTries, cfg0, nTries0, nFlips,
                   ciSel, vSel, cfgPre>>
    /\ UNCHANGED <<evalVars, genVars>>

\* lines 79, 83, 88-102: one flip.  The guard on nFlips only caps the history
\* counter; the code never reaches it, since nFlips <= nTries0 <= MaxTries.
Flip ==
    /\ pc = "loop"
    /\ LoopCond(nTries)
    /\ ~checkCfg(cnf, cfg)
    /\ nFlips <= MaxTries
    /\ LET unsat == NotSatList(cnf, cfg) IN
       \E i \in DOMAIN unsat :
         \E j \in DOMAIN unsat[i] :
           /\ ciSel' = unsat[i]
           /\ vSel' = Abs(unsat[i][j])
           /\ cfg' = FlipAt(cfg, Abs(unsat[i][j]))
    /\ cfgPre' = cfg
    /\ nTries' = NextTries(nTries)
    /\ nFlips' = nFlips + 1
    /\ nIters' = nIters + 1
    /\ UNCHANGED <<cnf, pc, cfg0, nTries0>>
    /\ UNCHANGED <<evalVars, genVars>>

\* lines 90-95: random.choice raises IndexError on an empty sequence, either the
\* list of unsatisfied clauses or the clause that was chosen
Raise ==
    /\ pc = "loop"
    /\ LoopCond(nTries)
    /\ ~checkCfg(cnf, cfg)
    /\ LET unsat == NotSatList(cnf, cfg) IN
         \/ unsat = <<>>
         \/ \E i \in DOMAIN unsat : unsat[i] = <<>>
    /\ pc' = "error"
    /\ nIters' = nIters + 1
    /\ UNCHANGED <<cnf, cfg, nTries, cfg0, nTries0, nFlips,
                   ciSel, vSel, cfgPre>>
    /\ UNCHANGED <<evalVars, genVars>>

Init == InitEngine /\ IdleEval /\ IdleGen

Next == Exhausted \/ Break \/ Flip \/ Raise

Spec == Init /\ [][Next]_vars

\* the loop is sequential code: a step that can be taken is taken
FairSpec == Init /\ [][Next]_vars /\ WF_vars(Next)

\* ------------------------------------------------- checkCfg called directly
InitEval ==
    /\ cnf \in CNFs
    /\ cfg \in Assignments
    /\ IdleEngine
    /\ evPc = "call"
    /\ evArg = <<>>
    /\ evSat = TRUE
    /\ IdleGen

\* checkCfg walking the cnf by popping its clauses: the caller's list is emptied
CheckCfgCall_consuming ==
    /\ evPc = "call"
    /\ evArg' = cnf
    /\ evSat' = checkCfg(cnf, cfg)
    /\ evPc' = "returned"
    /\ cnf' = <<>>
    /\ UNCHANGED <<cfg, nTries, pc, cfg0, nTries0, nFlips, nIters,
                   ciSel, vSel, cfgPre>>
    /\ UNCHANGED genVars

\* checkCfg(cnf, cfg), as on lines 83 and 124
CheckCfgCall ==
    /\ evPc = "call"
    /\ evArg' = cnf
    /\ evSat' = checkCfg(cnf, cfg)
    /\ evPc' = "returned"
    /\ UNCHANGED <<engineVars, genVars>>

\* checkCfg([ci], cfg) for a clause ci of the cnf, as on line 77
NotSatCall ==
    /\ evPc = "call"
    /\ \E i \in DOMAIN cnf :
         /\ evArg' = <<cnf[i]>>
         /\ evSat' = checkCfg(<<cnf[i]>>, cfg)
    /\ evPc' = "returned"
    /\ UNCHANGED <<engineVars, genVars>>

NextEval == CheckCfgCall \/ NotSatCall

EvalSpec == InitEval /\ [][NextEval]_vars

\* ------------------------------------------------------------ constructCNF
\* random.choice per position: variables drawn with replacement
Sample_withReplacement(n, k) == [1..k -> 1..n]

\* random.sample asked for no more than the population holds: min(k, n) elements
Sample_clamped(n, k) ==
    LET m == IF k > n THEN n ELSE k IN
    {s \in [1..m -> 1..n] : \A i, j \in 1..m : i # j => s[i] # s[j]}

\* line 28: random.sample(range(1,nV+1), nL), k distinct elements in any order;
\* there is none when k > n, where random.sample raises ValueError
Sample(n, k) ==
    {s \in [1..k -> 1..n] : \A i, j \in 1..k : i # j => s[i] # s[j]}

\* lines 27-28: the tuples one clause can be
GenClauses(n, k) ==
    UNION {{c \in [DOMAIN s -> {l \in (0 - n)..n : l # 0}] :
               \A i \in DOMAIN s : c[i] \in {0 - s[i], s[i]}} :
           s \in Sample(n, k)}

InitGen ==
    /\ cnf = <<>>
    /\ cfg = [v \in 1..NVars |-> 0]
    /\ IdleEngine
    /\ IdleEval
    /\ gPc = "gen"
    /\ gC \in 0..MaxClauses
    /\ gL \in 0..MaxK
    /\ gV \in 0..NVars
    /\ gOut = <<>>

\* lines 27-29: one round of "for ci in range(nC)"
GenClause ==
    /\ gPc = "gen"
    /\ Len(gOut) < gC
    /\ Sample(gV, gL) # {}
    /\ \E c \in GenClauses(gV, gL) : gOut' = Append(gOut, c)
    /\ UNCHANGED <<gPc, gC, gL, gV>>
    /\ UNCHANGED <<engineVars, evalVars>>

\* line 28: random.sample raises ValueError when nL > nV
GenRaise ==
    /\ gPc = "gen"
    /\ Len(gOut) < gC
    /\ Sample(gV, gL) = {}
    /\ gPc' = "error"
    /\ UNCHANGED <<gC, gL, gV, gOut>>
    /\ UNCHANGED <<engineVars, evalVars>>

\* line 27: return the list
GenReturn ==
    /\ gPc = "gen"
    /\ Len(gOut) = gC
    /\ gPc' = "returned"
    /\ UNCHANGED <<gC, gL, gV, gOut>>
    /\ UNCHANGED <<engineVars, evalVars>>

NextGen == GenClause \/ GenRaise \/ GenReturn

GenSpec == InitGen /\ [][NextGen]_vars

\* ------------------------------------------------------------- properties
\* satisfaction as the specification words it, independent of checkCfg
Agrees(li, a) ==
    \/ li > 0 /\ a[Abs(li)] = 1
    \/ li < 0 /\ a[Abs(li)] = 0

ClauseSatisfied(ci, a) == \E j \in DOMAIN ci : Agrees(ci[j], a)

Satisfies(f, a) == \A i \in DOMAIN f : ClauseSatisfied(f[i], a)

NoEmptyClause(f) == \A i \in DOMAIN f : f[i] # <<>>

Unsatisfiable(f) == \A a \in Assignments : ~Satisfies(f, a)

VarsOf(ci) == {Abs(ci[j]) : j \in DOMAIN ci}

\* C1: a run started on an assignment that already satisfies the CNF (the empty
\* CNF and budget 0 included) never flips, never changes the assignment, never
\* raises, and returns the budget it was given.
C1_Idempotence ==
    Satisfies(cnf, cfg0) =>
        /\ pc \in {"loop", "done"}
        /\ nFlips = 0
        /\ cfg = cfg0
        /\ nTries = nTries0

C1_Witness ==
    /\ pc = "done"
    /\ cnf # <<>>
    /\ Satisfies(cnf, cfg0)
    /\ nTries0 > 0
    /\ nTries = nTries0

\* C2: with no empty clause in the CNF every run reaches the return statement,
\* and the loop body is entered at most nTries0 times.
C2_Termination ==
    NoEmptyClause(cnf) => (<>(pc = "done") /\ [](nIters <= nTries0))

C2_Witness ==
    /\ pc = "done"
    /\ NoEmptyClause(cnf)
    /\ nTries0 >= 2
    /\ nIters = nTries0

\* C3: the remaining budget is the initial budget minus the flips made so far
\* and stays within 0..nTries0; a step lowers it by at most 1, and a step that
\* flips lowers it by exactly 1.
C3_BudgetAccounting ==
    /\ [](nTries = nTries0 - nFlips /\ 0 <= nTries /\ nTries <= nTries0)
    /\ [][/\ nTries' \in {nTries, nTries - 1}
          /\ nIters' <= nIters + 1
          /\ (nFlips' # nFlips => nTries' = nTries - 1)]_vars

C3_Witness ==
    /\ pc = "done"
    /\ nFlips >= 2
    /\ nTries >= 1
    /\ nTries = nTries0 - nFlips

\* C4: checkCfg on a one-clause CNF returns true iff some literal of the clause
\* agrees with the assignment (v agrees iff cfg[v-1] = 1, -v iff cfg[v-1] = 0);
\* for the empty clause it returns false.
C4_ClauseEvaluation ==
    (evPc = "returned" /\ Len(evArg) = 1) =>
        /\ evSat <=> (\E j \in DOMAIN evArg[1] : Agrees(evArg[1][j], cfg))
        /\ evArg[1] = <<>> => evSat = FALSE

C4_Witness ==
    /\ evPc = "returned"
    /\ Len(evArg) = 1
    /\ evSat = TRUE
    /\ \A j \in DOMAIN evArg[1] : evArg[1][j] < 0

\* C5: checkCfg(cnf, cfg) returns true iff every clause of cnf is satisfied by
\* cfg (true for the empty CNF); breaking at the first unsatisfied clause gives
\* the value a full evaluation gives.
C5_FormulaEvaluation ==
    evPc = "returned" => (evSat <=> Satisfies(evArg, cfg))

C5_Witness ==
    /\ evPc = "returned"
    /\ Len(evArg) = 2
    /\ ~ClauseSatisfied(evArg[1], cfg)
    /\ ClauseSatisfied(evArg[2], cfg)
    /\ evSat = FALSE

\* C6: on a CNF with no empty clause that no assignment satisfies, every run
\* returns after exactly nTries0 flips with budget 0 and an assignment that
\* does not satisfy the CNF.
C6_BudgetExhaustion ==
    (Unsatisfiable(cnf) /\ NoEmptyClause(cnf)) =>
        <>(/\ pc = "done"
           /\ nFlips = nTries0
           /\ nTries = 0
           /\ ~Satisfies(cnf, cfg))

C6_Witness ==
    /\ pc = "done"
    /\ Unsatisfiable(cnf)
    /\ NoEmptyClause(cnf)
    /\ nTries0 >= 2
    /\ nFlips = nTries0
    /\ nTries = 0

\* C7: on a CNF of one non-empty clause that the initial assignment does not
\* satisfy, with budget at least 1, a run makes exactly one flip, of a variable
\* of that clause; the clause is satisfied from then on and the run returns
\* budget nTries0 - 1.
SingleClauseCase ==
    /\ Len(cnf) = 1
    /\ cnf[1] # <<>>
    /\ ~ClauseSatisfied(cnf[1], cfg0)
    /\ nTries0 >= 1

C7_SingleClause ==
    SingleClauseCase =>
        /\ pc # "error"
        /\ nFlips <= 1
        /\ nFlips = 1 =>
             /\ vSel \in VarsOf(cnf[1])
             /\ cfg = [cfg0 EXCEPT ![vSel] = 1 - cfg0[vSel]]
             /\ ClauseSatisfied(cnf[1], cfg)
        /\ pc = "done" => (nFlips = 1 /\ nTries = nTries0 - 1)

C7_Witness ==
    /\ SingleClauseCase
    /\ pc = "done"
    /\ Len(cnf[1]) = 2
    /\ nTries0 >= 2
    /\ nTries = nTries0 - 1

\* C8: a run on a CNF whose literals are nonzero with magnitude at most N,
\* empty clauses allowed, never ends in an exception.
C8_NoError == pc # "error"

\* C9: constructCNF(nC, nL, nV) with nL <= nV does not raise, and what it
\* returns has nC clauses of nL literals each, every literal nonzero with
\* magnitude in 1..nV, and pairwise distinct magnitudes within a clause.
C9_Generation ==
    gL <= gV =>
        /\ gPc # "error"
        /\ gPc = "returned" =>
             /\ Len(gOut) = gC
             /\ \A i \in DOMAIN gOut :
                  /\ Len(gOut[i]) = gL
                  /\ \A j \in DOMAIN gOut[i] :
                       /\ gOut[i][j] # 0
                       /\ Abs(gOut[i][j]) \in 1..gV
                  /\ \A j, m \in DOMAIN gOut[i] :
                       j # m => Abs(gOut[i][j]) # Abs(gOut[i][m])

C9_Witness ==
    /\ gPc = "returned"
    /\ gC >= 2
    /\ gL >= 2
    /\ gL <= gV
    /\ gOut[1] = gOut[2]

\* C10: a step that flips complements exactly one variable, and that variable
\* is the magnitude of a literal of a clause unsatisfied under the assignment
\* as it stands before the step; a variable that occurs only in clauses
\* satisfied at that moment is not flipped.
OccursInUnsat(v, f, a) ==
    \E i \in DOMAIN f : ~ClauseSatisfied(f[i], a) /\ v \in VarsOf(f[i])

C10_FlipTarget ==
    [][nFlips' # nFlips =>
         /\ \E v \in 1..NVars : cfg' = [cfg EXCEPT ![v] = 1 - cfg[v]]
         /\ \A v \in 1..NVars :
              cfg'[v] # cfg[v] => OccursInUnsat(v, cnf, cfg)]_vars

C10_Witness ==
    /\ nFlips >= 2
    /\ cfgPre # cfg0
    /\ OccursInUnsat(vSel, cnf, cfgPre)
    /\ \E i \in DOMAIN cnf : ClauseSatisfied(cnf[i], cfgPre)
    /\ \E v \in 1..NVars :
         /\ ~OccursInUnsat(v, cnf, cfgPre)
         /\ \E i \in DOMAIN cnf : v \in VarsOf(cnf[i])

\* C11: the CNF never changes; a loop iteration that stays in the loop changes
\* exactly one index of the assignment, to its complement, and keeps its
\* length; every other step leaves the assignment alone; so the assignment
\* always has length N and values in {0,1}.
Changed(a, b) == {v \in DOMAIN a : a[v] # b[v]}

C11_FlipFrame ==
    /\ [](cfg \in [1..NVars -> {0, 1}])
    /\ [][/\ cnf' = cnf
          /\ DOMAIN cfg' = DOMAIN cfg
          /\ IF nIters' # nIters /\ pc' = "loop"
             THEN /\ Cardinality(Changed(cfg, cfg')) = 1
                  /\ \A v \in Changed(cfg, cfg') : cfg'[v] = 1 - cfg[v]
             ELSE cfg' = cfg]_vars

C11_Witness ==
    /\ pc = "loop"
    /\ nFlips >= 2
    /\ Changed(cfgPre, cfg) = {vSel}
    /\ Changed(cfg0, cfg) # {}

\* C12: in every reachable state checkCfg(cnf, cfg) is false iff the list of
\* clauses ci with notSat(ci) is non-empty; a run that raised did not raise by
\* choosing from an empty list of clauses.
C12_ChecksAgree ==
    /\ ~checkCfg(cnf, cfg) <=> NotSatList(cnf, cfg) # <<>>
    /\ pc = "error" => NotSatList(cnf, cfg) # <<>>

C12_Witness ==
    /\ pc = "loop"
    /\ nFlips >= 1
    /\ ~checkCfg(cnf, cfg)
    /\ Len(NotSatList(cnf, cfg)) = 1
    /\ Len(cnf) = 2

\* C13: on a CNF with no empty clause, a run that returns with budget left
\* returns an assignment that satisfies the CNF.
C13_BudgetLeftMeansSat ==
    (NoEmptyClause(cnf) /\ pc = "done" /\ nTries > 0) => Satisfies(cnf, cfg)

C13_Witness ==
    /\ pc = "done"
    /\ nTries > 0
    /\ nFlips >= 1
    /\ Len(cnf) = 2
    /\ NoEmptyClause(cnf)
    /\ Satisfies(cnf, cfg)

\* C14: after a flip the clause that was chosen, unsatisfied under the
\* assignment before the flip, is satisfied under the assignment after it,
\* also when the clause repeats a variable.
C14_LocalProgress ==
    nFlips >= 1 =>
        /\ ~ClauseSatisfied(ciSel, cfgPre)
        /\ cfg = [cfgPre EXCEPT ![vSel] = 1 - cfgPre[vSel]]
        /\ ClauseSatisfied(ciSel, cfg)

C14_Witness ==
    /\ nFlips >= 1
    /\ Len(ciSel) = 2
    /\ Abs(ciSel[1]) = Abs(ciSel[2])
    /\ ciSel[1] < 0
    /\ ClauseSatisfied(ciSel, cfg)

\* C15: a run started with budget 0, on any CNF and any assignment, makes no
\* flip, does not raise, and returns budget 0 with the assignment unchanged.
C15_ZeroBudget ==
    nTries0 = 0 =>
        /\ pc \in {"loop", "done"}
        /\ nFlips = 0
        /\ nIters = 0
        /\ nTries = 0
        /\ cfg = cfg0

C15_Witness ==
    /\ pc = "done"
    /\ nTries0 = 0
    /\ nTries = 0
    /\ ~Satisfies(cnf, cfg0)
    /\ cfg = cfg0

\* C16: a call of checkCfg, on the whole cnf or on one clause of it, leaves
\* the cnf and the assignment as they were, and the value it returns is a
\* function of its two arguments alone.
C16_EvaluatorPure ==
    /\ [][evPc' # evPc => (cnf' = cnf /\ cfg' = cfg)]_vars
    /\ [](evPc = "returned" => (evSat = Satisfies(evArg, cfg)))

C16_Witness ==
    /\ evPc = "returned"
    /\ evArg = cnf
    /\ Len(cnf) = 2
    /\ evSat = FALSE

\* C17: constructCNF(nC, nL, nV) with nL > nV and nC >= 1 never returns and
\* never builds a clause; it ends by raising.
C17_MalformedRequest ==
    (gL > gV /\ gC >= 1) =>
        /\ gPc \in {"gen", "error"}
        /\ gOut = <<>>

C17_Witness ==
    /\ gPc = "error"
    /\ gL > gV
    /\ gV >= 1
    /\ gC >= 1
    /\ gOut = <<>>

====
